---- MODULE Spec2Model ----
(***************************************************************************)
(* Lead qualification engine: Pass 1 scoring (scorer.py, signals.py) and   *)
(* Pass 2 enrichment (enricher.py).                                        *)
(*                                                                         *)
(* Representation of Python values:                                        *)
(*   - str used with `in`/split/strip : a sequence of one-character (or,   *)
(*     for rule conditions, one-token) strings; "" is <<>>.                *)
(*   - str used only with == (tier, category, signal names): a TLA+ string *)
(*   - int | None : <<>> is None, <<n>> is the integer n.                  *)
(*   - dict : a function whose DOMAIN is the set of keys present.          *)
(***************************************************************************)
EXTENDS Integers, Sequences, FiniteSets, TLC

VARIABLES
    pc,             \* position of the running entry point
    config,         \* the loaded configuration document
    call,           \* the last direct call of an engine function: its arguments and outcome
    companies,      \* score_companies: its input list
    results,        \* score_companies: the list it returned
    pass1_results,  \* enrich_companies: its input list
    to_enrich,      \* enrich_companies: eligible[:top_n]
    skipped,        \* enrich_companies: eligible[top_n:]
    enriched,       \* enrich_companies: the records appended so far / returned
    idx,            \* enrich_companies: loop index i (0-based)
    cur,            \* enrich_companies: search results and signals of the company in hand
    trace           \* enrich_companies: the external calls made so far, in order

vars == <<pc, config, call, companies, results, pass1_results, to_enrich,
          skipped, enriched, idx, cur, trace>>

----------------------------------------------------------------------------
(* Python values *)

None == <<>>
Some(x) == <<x>>
EmptyDict == <<>>

\* dict.get(k, dflt)
Get(d, k, dflt) == IF k \in DOMAIN d THEN d[k] ELSE dflt

\* `t in s` for two str
Contains(t, s) ==
    \E i \in 0..(Len(s) - Len(t)) : SubSeq(s, i + 1, i + Len(t)) = t

\* `x in lst` for a list
InList(x, lst) == \E i \in 1..Len(lst) : lst[i] = x

Min(a, b) == IF a <= b THEN a ELSE b
Max(a, b) == IF a >= b THEN a ELSE b

Digits == {"0", "1", "2", "3", "4", "5", "6", "7", "8", "9"}
DigitVal(c) ==
    CASE c = "0" -> 0 [] c = "1" -> 1 [] c = "2" -> 2 [] c = "3" -> 3
      [] c = "4" -> 4 [] c = "5" -> 5 [] c = "6" -> 6 [] c = "7" -> 7
      [] c = "8" -> 8 [] c = "9" -> 9

\* int(digits) for a non-empty str of decimal digits
RECURSIVE IntOfDigits(_)
IntOfDigits(ds) ==
    IF ds = <<>> THEN 0
    ELSE 10 * IntOfDigits(SubSeq(ds, 1, Len(ds) - 1)) + DigitVal(ds[Len(ds)])

\* str.lower() over the characters the model uses
LowerChar(c) ==
    CASE c = "H" -> "h" [] c = "R" -> "r" [] c = "A" -> "a" [] c = "B" -> "b"
      [] OTHER -> c
Lower(s) == [i \in 1..Len(s) |-> LowerChar(s[i])]

----------------------------------------------------------------------------
(* scorer.py *)

\* value is [kind |-> "int", val], [kind |-> "float", tenths] (val = tenths/10),
\* [kind |-> "str", val] or [kind |-> "other"] (None, a date, ...)
parse_employees(value) ==
    IF value.kind = "int" THEN Some(value.val)
    ELSE IF value.kind = "float"
         THEN Some(IF value.tenths >= 0 THEN value.tenths \div 10
                   ELSE -((-value.tenths) \div 10))
    ELSE IF value.kind = "str"
         THEN LET digits == SelectSeq(value.val, LAMBDA c : c \in Digits)
              IN  IF digits # <<>> THEN Some(IntOfDigits(digits)) ELSE None
    ELSE None

\* FirstBracket with the last bracket taken as unbounded
RECURSIVE FirstBracketOpenTop(_, _, _)
FirstBracketOpenTop(brackets, employees, i) ==
    IF i > Len(brackets) THEN None
    ELSE IF employees <= brackets[i].max \/ i = Len(brackets)
         THEN Some(brackets[i].points)
    ELSE FirstBracketOpenTop(brackets, employees, i + 1)

RECURSIVE FirstBracket(_, _, _)
FirstBracket(brackets, employees, i) ==
    IF i > Len(brackets) THEN None
    ELSE IF employees <= brackets[i].max THEN Some(brackets[i].points)
    ELSE FirstBracket(brackets, employees, i + 1)

score_size(employees, cfg) ==
    LET min_emp == Get(cfg.size_scoring, "min_employees", 0)
    IN  IF employees = None \/ employees[1] < min_emp THEN None
        ELSE FirstBracket(cfg.size_scoring.brackets, employees[1], 1)

TierOrder == <<"A", "B", "C", "OUT">>

\* IndustryLookup with an unmatched industry left without points
RECURSIVE IndustryLookupNoDefault(_, _, _)
IndustryLookupNoDefault(industry, tiers, i) ==
    IF i > Len(TierOrder)
    THEN <<Get(tiers, "default_tier", "C"), None>>
    ELSE LET tier_name == TierOrder[i]
             tier == Get(tiers, tier_name, EmptyDict)
         IN  IF InList(industry, Get(tier, "industries", <<>>))
             THEN <<tier_name, Get(tier, "points", None)>>
             ELSE IndustryLookupNoDefault(industry, tiers, i + 1)

RECURSIVE IndustryLookup(_, _, _)
IndustryLookup(industry, tiers, i) ==
    IF i > Len(TierOrder)
    THEN <<Get(tiers, "default_tier", "C"), Get(tiers, "default_points", Some(10))>>
    ELSE LET tier_name == TierOrder[i]
             tier == Get(tiers, tier_name, EmptyDict)
         IN  IF InList(industry, Get(tier, "industries", <<>>))
             THEN <<tier_name, Get(tier, "points", None)>>
             ELSE IndustryLookup(industry, tiers, i + 1)

\* returns <<tier_letter, points>>, points None when disqualified
score_industry(industry, cfg) == IndustryLookup(industry, cfg.industry_tiers, 1)

\* FirstTier with the threshold itself excluded
RECURSIVE FirstTierStrict(_, _, _)
FirstTierStrict(tiers, score, i) ==
    IF i > Len(tiers) THEN "Disqualified"
    ELSE IF score > tiers[i].min_score THEN tiers[i].name
    ELSE FirstTierStrict(tiers, score, i + 1)

RECURSIVE FirstTier(_, _, _)
FirstTier(tiers, score, i) ==
    IF i > Len(tiers) THEN "Disqualified"
    ELSE IF score >= tiers[i].min_score THEN tiers[i].name
    ELSE FirstTier(tiers, score, i + 1)

assign_tier(score, cfg) == FirstTier(cfg.tiers, score, 1)

----------------------------------------------------------------------------
(* signals.py *)

\* hits = [t for t in terms if t in text]
Hits(terms, text) == SelectSeq(terms, LAMBDA t : Contains(t, text))

\* ScanCategories adding a category's points once per matching term
RECURSIVE ScanCategoriesPerTerm(_, _, _, _)
ScanCategoriesPerTerm(categories, text, i, acc) ==
    IF i > Len(categories) THEN acc
    ELSE LET category == categories[i]
             hits == Hits(category.terms, text)
         IN  IF hits # <<>>
             THEN ScanCategoriesPerTerm(categories, text, i + 1,
                      [acc EXCEPT !.total = @ + Len(hits) * category.points,
                                  !.matched = Append(@, category.name)])
             ELSE ScanCategoriesPerTerm(categories, text, i + 1, acc)

\* acc is [total, matched, flags], the three locals of scan_keywords
RECURSIVE ScanCategories(_, _, _, _)
ScanCategories(categories, text, i, acc) ==
    IF i > Len(categories) THEN acc
    ELSE LET category == categories[i]
             hits == Hits(category.terms, text)
         IN  IF hits # <<>>
             THEN ScanCategories(categories, text, i + 1,
                      [acc EXCEPT !.total = @ + category.points,
                                  !.matched = Append(@, category.name)])
             ELSE ScanCategories(categories, text, i + 1, acc)

RECURSIVE ScanConditional(_, _, _, _, _)
ScanConditional(signals, text, industry, i, acc) ==
    IF i > Len(signals) THEN acc
    ELSE LET signal == signals[i]
             condition == signal.condition
             industry_match == Get(condition, "industry_contains", <<>>)
             exclude_cat == Get(condition, "exclude_if_category_matched", "")
             hits == Hits(signal.terms, text)
         IN  IF industry_match # <<>> /\ industry # <<>> /\ Contains(industry_match, industry)
             THEN IF exclude_cat # "" /\ InList(exclude_cat, acc.matched)
                  THEN ScanConditional(signals, text, industry, i + 1, acc)
                  ELSE IF hits # <<>>
                  THEN ScanConditional(signals, text, industry, i + 1,
                           [acc EXCEPT !.total = @ + signal.points,
                                       !.matched = Append(@, signal.name)])
                  ELSE ScanConditional(signals, text, industry, i + 1, acc)
             ELSE ScanConditional(signals, text, industry, i + 1, acc)

RECURSIVE ScanFlags(_, _, _, _, _)
ScanFlags(flags, text, industry, i, acc) ==
    IF i > Len(flags) THEN acc
    ELSE LET flag == flags[i]
             industry_match == Get(flag.condition, "industry_contains", <<>>)
             hits == Hits(flag.terms, text)
         IN  IF industry_match # <<>> /\ industry # <<>> /\ Contains(industry_match, industry)
                /\ hits # <<>>
             THEN ScanFlags(flags, text, industry, i + 1,
                      [acc EXCEPT !.total = @ - flag.penalty,
                                  !.flags = Append(@, flag.name)])
             ELSE ScanFlags(flags, text, industry, i + 1, acc)

\* returns [total, matched, flags]
scan_keywords(text, industry, cfg) ==
    LET kw_config == cfg.keyword_signals
        cap == Get(kw_config, "cap", 25)
        a0 == [total |-> 0, matched |-> <<>>, flags |-> <<>>]
        a1 == ScanCategories(kw_config.categories, text, 1, a0)
        a2 == ScanConditional(Get(cfg, "conditional_signals", <<>>), text, industry, 1, a1)
        a3 == ScanFlags(Get(cfg, "flags", <<>>), text, industry, 1, a2)
    IN  [a3 EXCEPT !.total = Min(@, cap)]

----------------------------------------------------------------------------
(* enricher.py *)

\* an insertion that puts r ahead of the records with an equal key
RECURSIVE InsertDescUnstable(_, _, _)
InsertDescUnstable(sorted, r, key) ==
    IF sorted = <<>> THEN <<r>>
    ELSE IF sorted[Len(sorted)][key] > r[key] THEN Append(sorted, r)
    ELSE Append(InsertDescUnstable(SubSeq(sorted, 1, Len(sorted) - 1), r, key),
                sorted[Len(sorted)])

\* stable insertion of r into a list already sorted by key, descending:
\* list.sort(key=..., reverse=True) keeps equal keys in their original order
RECURSIVE InsertDesc(_, _, _)
InsertDesc(sorted, r, key) ==
    IF sorted = <<>> THEN <<r>>
    ELSE IF sorted[Len(sorted)][key] >= r[key] THEN Append(sorted, r)
    ELSE Append(InsertDesc(SubSeq(sorted, 1, Len(sorted) - 1), r, key),
                sorted[Len(sorted)])

RECURSIVE SortDesc(_, _)
SortDesc(lst, key) ==
    IF lst = <<>> THEN <<>>
    ELSE InsertDesc(SortDesc(SubSeq(lst, 1, Len(lst) - 1), key), lst[Len(lst)], key)

SignalKeys == {"num_locations", "employee_sentiment", "hr_initiatives",
               "competitor_tools", "decentralized", "summary"}

_empty_signals ==
    [num_locations |-> None,
     employee_sentiment |-> <<"unknown">>,
     hr_initiatives |-> FALSE,
     competitor_tools |-> <<>>,
     decentralized |-> FALSE,
     summary |-> "No search results available."]

\* the defaults of the six signals.setdefault(...) calls
SetDefaults ==
    [num_locations |-> None,
     employee_sentiment |-> <<"unknown">>,
     hr_initiatives |-> FALSE,
     competitor_tools |-> <<>>,
     decentralized |-> FALSE,
     summary |-> ""]

\* The text of a model response is a sequence of segments: a code fence
\* [seg |-> "fence"] (three backquotes), a line break [seg |-> "nl"], prose
\* [seg |-> "prose"] (a language tag, a sentence) or a JSON value
\* [seg |-> "json", value |-> v], v being [type |-> "object", dict |-> d] or
\* [type |-> "array" | "null" | "number" | "string"].
IsSpace(s) == s.seg = "nl"

RECURSIVE LStrip(_)
LStrip(t) == IF t # <<>> /\ IsSpace(t[1]) THEN LStrip(Tail(t)) ELSE t
RECURSIVE RStrip(_)
RStrip(t) ==
    IF t # <<>> /\ IsSpace(t[Len(t)]) THEN RStrip(SubSeq(t, 1, Len(t) - 1)) ELSE t
Strip(t) == LStrip(RStrip(t))

\* text.split("\n", 1)[1], for a text that holds a line break
AfterFirstNl(t) ==
    LET p == CHOOSE i \in 1..Len(t) :
                 /\ t[i].seg = "nl"
                 /\ \A j \in 1..(i - 1) : t[j].seg # "nl"
    IN  SubSeq(t, p + 1, Len(t))

\* lines 72-75
StripFences(text) ==
    IF text # <<>> /\ text[1].seg = "fence"
    THEN LET t1 == IF \E i \in 1..Len(text) : text[i].seg = "nl"
                   THEN AfterFirstNl(text)
                   ELSE Tail(text)
         IN  IF t1 # <<>> /\ t1[Len(t1)].seg = "fence"
             THEN Strip(SubSeq(t1, 1, Len(t1) - 1))
             ELSE t1
    ELSE text

\* json.loads(text): [ok |-> FALSE] when it raises, the value otherwise
JsonLoads(text) ==
    LET t == Strip(text)
    IN  IF Len(t) = 1 /\ t[1].seg = "json"
        THEN [ok |-> TRUE, value |-> t[1].value]
        ELSE [ok |-> FALSE]

\* llm is what the language model collaborator does: [kind |-> "construct_raises"]
\* (Anthropic() raises), [kind |-> "call_raises"] (messages.create raises),
\* [kind |-> "no_content"] (response.content is empty) or
\* [kind |-> "text", text |-> segments].
\* Returns [raised |-> TRUE] when the exception leaves extract_signals,
\* [raised |-> FALSE, signals |-> dict] otherwise.
extract_signals(search_results, llm) ==
    IF search_results = <<>> THEN [raised |-> FALSE, signals |-> _empty_signals]
    ELSE IF llm.kind = "construct_raises" THEN [raised |-> TRUE]
    ELSE IF llm.kind \in {"call_raises", "no_content"}
         THEN [raised |-> FALSE, signals |-> _empty_signals]
    ELSE LET parsed == JsonLoads(StripFences(Strip(llm.text)))
         IN  IF ~parsed.ok THEN [raised |-> FALSE, signals |-> _empty_signals]
             ELSE IF parsed.value.type # "object" THEN [raised |-> TRUE]
             ELSE LET d == parsed.value.dict
                  IN  [raised |-> FALSE,
                       signals |-> [k \in (DOMAIN d) \cup SignalKeys |->
                                       IF k \in DOMAIN d THEN d[k] ELSE SetDefaults[k]]]

\* A rule condition is a str held as a sequence of tokens: the words, the
\* operators ">=" and "==", single blanks " " and integer literals.
IntLiterals == {"0", "1", "2", "3", "4", "5", "6", "7", "8", "9"}

IsBlank(tok) == tok = " "
RECURSIVE LStripBlanks(_)
LStripBlanks(t) == IF t # <<>> /\ IsBlank(t[1]) THEN LStripBlanks(Tail(t)) ELSE t
RECURSIVE RStripBlanks(_)
RStripBlanks(t) ==
    IF t # <<>> /\ IsBlank(t[Len(t)])
    THEN RStripBlanks(SubSeq(t, 1, Len(t) - 1)) ELSE t

\* condition.split(sep)[1].strip(), for a condition that holds sep
SecondPiece(condition, sep) ==
    LET p == CHOOSE i \in 1..Len(condition) :
                 /\ condition[i] = sep
                 /\ \A j \in 1..(i - 1) : condition[j] # sep
        rest == SubSeq(condition, p + 1, Len(condition))
        q == IF \E i \in 1..Len(rest) : rest[i] = sep
             THEN CHOOSE i \in 1..Len(rest) :
                      /\ rest[i] = sep
                      /\ \A j \in 1..(i - 1) : rest[j] # sep
             ELSE Len(rest) + 1
    IN  LStripBlanks(RStripBlanks(SubSeq(rest, 1, q - 1)))

\* int(s): [ok |-> FALSE] when it raises ValueError
IntOf(s) ==
    IF Len(s) = 1 /\ s[1] \in IntLiterals
    THEN [ok |-> TRUE, value |-> DigitVal(s[1])]
    ELSE [ok |-> FALSE]

PatNumLocations == <<"num_locations", " ", ">=", " ">>
PatSentiment == <<"employee_sentiment", " ", "==", " ">>
PatHr == <<"hr_initiatives", " ", "==", " ", "true">>
PatDecentralized == <<"decentralized", " ", "==", " ", "true">>
PatToolsEmpty == <<"competitor_tools", " ", "is", " ", "empty">>
PatToolsNotEmpty == <<"competitor_tools", " ", "is", " ", "not", " ", "empty">>

\* returns [raised |-> TRUE] or [raised |-> FALSE, hit |-> BOOLEAN]
_evaluate_rule(condition, signals) ==
    IF Contains(PatNumLocations, condition)
    THEN LET threshold == IntOf(SecondPiece(condition, ">="))
             n == Get(signals, "num_locations", None)
             count == IF n = None THEN 0 ELSE n[1]
         IN  IF ~threshold.ok THEN [raised |-> TRUE]
             ELSE [raised |-> FALSE, hit |-> count >= threshold.value]
    ELSE IF Contains(PatSentiment, condition)
    THEN LET expected == SecondPiece(condition, "==")
         IN  [raised |-> FALSE,
              hit |-> /\ "employee_sentiment" \in DOMAIN signals
                      /\ signals.employee_sentiment = expected]
    ELSE IF Contains(PatHr, condition)
    THEN [raised |-> FALSE, hit |-> Get(signals, "hr_initiatives", FALSE)]
    ELSE IF Contains(PatDecentralized, condition)
    THEN [raised |-> FALSE, hit |-> Get(signals, "decentralized", FALSE)]
    ELSE IF Contains(PatToolsEmpty, condition)
    THEN [raised |-> FALSE, hit |-> Len(Get(signals, "competitor_tools", <<>>)) = 0]
    ELSE IF Contains(PatToolsNotEmpty, condition)
    THEN [raised |-> FALSE, hit |-> Len(Get(signals, "competitor_tools", <<>>)) > 0]
    ELSE [raised |-> FALSE, hit |-> FALSE]

\* acc is [raised, total, matched]
RECURSIVE ScoreRules(_, _, _, _)
ScoreRules(rules, signals, i, acc) ==
    IF i > Len(rules) THEN acc
    ELSE LET rule == rules[i]
             hit == _evaluate_rule(rule.condition, signals)
         IN  IF hit.raised THEN [raised |-> TRUE]
             ELSE IF hit.hit
             THEN ScoreRules(rules, signals, i + 1,
                      [acc EXCEPT !.total = @ + rule.points,
                                  !.matched = Append(@, rule.signal)])
             ELSE ScoreRules(rules, signals, i + 1, acc)

\* returns [raised |-> TRUE] when an exception leaves score_enrichment,
\* [raised |-> FALSE, total, matched] otherwise
score_enrichment(signals, cfg) ==
    LET enr == cfg.enrichment
        bonus_cap == Get(enr, "bonus_cap", 20)
        acc == ScoreRules(Get(enr, "bonus_rules", <<>>), signals, 1,
                          [raised |-> FALSE, total |-> 0, matched |-> <<>>])
    IN  IF acc.raised THEN acc
        ELSE [acc EXCEPT !.total = Max(Min(@, bonus_cap), -bonus_cap)]

----------------------------------------------------------------------------
(* Bounds and the inputs drawn within them *)

MaxScore == 5        \* scores and tier thresholds range up to this
MaxTiers == 2        \* configured tiers in a drawn tier list
MaxBrackets == 2     \* configured size brackets in a drawn bracket list
MaxTextLen == 3      \* characters of a drawn text
MaxRules == 2        \* bonus rules in a drawn rule list

SeqsUpTo(S, n) == UNION {[1..k -> S] : k \in 0..n}

Scores == (-2)..MaxScore
Thresholds == 0..(MaxScore - 1)
TierName(i) ==
    CASE i = 1 -> "A - Hot" [] i = 2 -> "B - Warm" [] i = 3 -> "C - Cool"
      [] OTHER -> "D - Cold"
\* tier lists in any order of min_score: the engine does not re-sort them
TierLists ==
    UNION {{[i \in 1..k |-> [name |-> TierName(i), min_score |-> f[i]]] :
               f \in [1..k -> Thresholds]} : k \in 0..MaxTiers}

\* raw cell values of the employees column
EmployeeValues ==
    {[kind |-> "int", val |-> n] : n \in {0, 9, 10, 50, 51, 1000, 1001}}
    \cup {[kind |-> "float", tenths |-> t] : t \in {99, 505}}
    \cup {[kind |-> "str", val |-> s] :
             s \in {<<"u", "n", "k", "n", "o", "w", "n">>,
                    <<"n", "/", "a">>,
                    <<"~", "5", "0", "0", " ", "F", "T", "E">>,
                    <<"1", ",", "0", "0", "1">>,
                    <<"1", "0", "+">>}}
    \cup {[kind |-> "other"]}

BracketChoices ==
    {[max |-> 50, points |-> 5], [max |-> 1000, points |-> 15],
     [max |-> 9, points |-> 1]}
SizeConfigs ==
    {[brackets |-> b] : b \in SeqsUpTo(BracketChoices, MaxBrackets)}
    \cup {[min_employees |-> m, brackets |-> b] :
             m \in {0, 10}, b \in SeqsUpTo(BracketChoices, MaxBrackets)}

Texts == SeqsUpTo({"a", "b"}, MaxTextLen)
Industries == {<<>>, <<"h">>, <<"h", "c">>}

KwConfigs ==
    {[keyword_signals |->
         [cap |-> 15,
          categories |->
              <<[name |-> "c1", terms |-> <<<<"a">>, <<"a", "b">>>>, points |-> 10],
                [name |-> "c2", terms |-> <<<<"b">>, <<"b", "b">>>>, points |-> 10]>>]],
     [keyword_signals |->
         [categories |->
              <<[name |-> "c1", terms |-> <<<<"a", "a">>, <<"a">>>>, points |-> 10],
                [name |-> "c2", terms |-> <<<<"b", "a">>>>, points |-> 20]>>],
      conditional_signals |->
          <<[name |-> "s1",
             condition |-> [industry_contains |-> <<"h">>,
                            exclude_if_category_matched |-> "c1"],
             terms |-> <<<<"b">>>>, points |-> 5],
            [name |-> "s2",
             condition |-> [industry_contains |-> <<"c">>],
             terms |-> <<<<"b">>, <<"a", "b">>>>, points |-> 3]>>,
      flags |->
          <<[name |-> "f1", condition |-> [industry_contains |-> <<"c">>],
             terms |-> <<<<"a">>, <<"b", "b">>>>, penalty |-> 40]>>],
     [keyword_signals |->
         [cap |-> 0,
          categories |->
              <<[name |-> "c1", terms |-> <<<<"a", "b">>, <<"b">>, <<"b", "b">>>>,
                 points |-> 7],
                [name |-> "c2", terms |-> <<<<"a">>>>, points |-> -3]>>],
      flags |-> <<>>],
     [keyword_signals |->
         [cap |-> 25,
          categories |->
              <<[name |-> "c1", terms |-> <<>>, points |-> 10],
                [name |-> "c2", terms |-> <<<<>>>>, points |-> 4],
                [name |-> "c3", terms |-> <<<<"a">>, <<"b">>, <<"a", "b">>>>,
                 points |-> 30]>>],
      conditional_signals |-> <<>>]}

\* enrichment signal records as the data model types them
SignalRecords ==
    {[num_locations |-> n, employee_sentiment |-> s, hr_initiatives |-> h,
      competitor_tools |-> t, decentralized |-> d, summary |-> "Five sites."] :
        n \in {None, Some(0), Some(5)},
        s \in {<<"positive">>, <<"unknown">>},
        h \in BOOLEAN,
        t \in {<<>>, <<"Gallup">>},
        d \in BOOLEAN}

\* signal records that lack fields: _evaluate_rule reads them with dict.get
SparseSignalRecords ==
    {[hr_initiatives |-> TRUE], [employee_sentiment |-> <<"positive">>]}

CondNumLoc3 == <<"num_locations", " ", ">=", " ", "3">>
CondNumLoc0 == <<"num_locations", " ", ">=", " ", "0">>
CondPositive == <<"employee_sentiment", " ", "==", " ", "positive">>
CondHr == <<"hr_initiatives", " ", "==", " ", "true">>
CondDecentralized == <<"decentralized", " ", "==", " ", "true">>
CondToolsEmpty == <<"competitor_tools", " ", "is", " ", "empty">>
CondToolsNotEmpty == <<"competitor_tools", " ", "is", " ", "not", " ", "empty">>
\* outside the vocabulary
CondUnknown == <<"founded", " ", "<", " ", "1990">>
CondNoBlanks == <<"num_locations", ">=", "3">>
CondBadThreshold == <<"num_locations", " ", ">=", " ", "many">>
CondNoThreshold == <<"num_locations", " ", ">=", " ">>

Conditions ==
    {CondNumLoc3, CondNumLoc0, CondPositive, CondHr, CondDecentralized, CondToolsEmpty,
     CondToolsNotEmpty, CondUnknown, CondNoBlanks, CondBadThreshold, CondNoThreshold}

BonusRuleChoices ==
    {[condition |-> CondNumLoc3, points |-> 5, signal |-> "multi_site"],
     [condition |-> CondPositive, points |-> 5, signal |-> "happy"],
     [condition |-> CondToolsEmpty, points |-> 3, signal |-> "greenfield"],
     [condition |-> CondToolsNotEmpty, points |-> -25, signal |-> "incumbent"],
     [condition |-> CondHr, points |-> 18, signal |-> "hr_programs"],
     [condition |-> CondDecentralized, points |-> 4, signal |-> "distributed"],
     [condition |-> CondUnknown, points |-> 7, signal |-> "old"],
     [condition |-> CondBadThreshold, points |-> 6, signal |-> "many_sites"]}

EnrichmentConfigs ==
    {[enrichment |-> [bonus_rules |-> r]] : r \in SeqsUpTo(BonusRuleChoices, MaxRules)}
    \cup {[enrichment |-> [bonus_cap |-> 10, bonus_rules |-> r]] :
             r \in SeqsUpTo(BonusRuleChoices, MaxRules)}

\* what the language model collaborator can do
Fence == [seg |-> "fence"]
Nl == [seg |-> "nl"]
Prose == [seg |-> "prose"]
Json(v) == [seg |-> "json", value |-> v]

SampleValues ==
    [num_locations |-> Some(5),
     employee_sentiment |-> <<"positive">>,
     hr_initiatives |-> TRUE,
     competitor_tools |-> <<"Gallup">>,
     decentralized |-> TRUE,
     summary |-> "Five sites."]

JsonValues ==
    {[type |-> "object", dict |-> [k \in S |-> SampleValues[k]]] : S \in SUBSET SignalKeys}
    \cup {[type |-> t] : t \in {"array", "null", "number", "string"}}

ResponseTexts ==
    UNION {{<<Json(v)>>,
            <<Nl, Json(v), Nl>>,
            <<Fence, Prose, Nl, Json(v), Nl, Fence>>,
            <<Fence, Json(v), Fence>>,
            <<Fence, Prose, Nl, Json(v)>>,
            <<Json(v), Nl, Fence>>,
            <<Prose, Nl, Json(v)>>} : v \in JsonValues}
    \cup {<<>>, <<Prose>>, <<Fence, Prose, Nl, Prose, Nl, Fence>>}

LlmOutcomes ==
    {[kind |-> k] : k \in {"construct_raises", "call_raises", "no_content"}}
    \cup {[kind |-> "text", text |-> t] : t \in ResponseTexts}

\* search_company returns [] on failure, else a list of {title, url, snippet}
SearchOutcomes ==
    {<<>>,
     <<[title |-> "t1", url |-> "u1", snippet |-> "s1"]>>,
     <<[title |-> "t1", url |-> "u1", snippet |-> "s1"],
       [title |-> "t2", url |-> "u2", snippet |-> "s2"]>>}

----------------------------------------------------------------------------
(* Direct calls of the engine's functions, inputs drawn from the sets above *)

NoCall == [fn |-> "none"]

\* everything but pc and call
pass_vars == <<config, companies, results, pass1_results, to_enrich, skipped,
               enriched, idx, cur, trace>>

\* one call per run: the function is applied once to the drawn input
CallAssignTier ==
    /\ pc = "fn"
    /\ \E s \in Scores, tl \in TierLists :
           call' = [fn |-> "assign_tier", score |-> s, tiers |-> tl,
                    ret |-> assign_tier(s, [tiers |-> tl])]
    /\ pc' = "returned"
    /\ UNCHANGED pass_vars

CallScoreSize ==
    /\ pc = "fn"
    /\ \E raw \in EmployeeValues, sc \in SizeConfigs :
           call' = [fn |-> "score_size", raw |-> raw,
                    employees |-> parse_employees(raw), size_scoring |-> sc,
                    ret |-> score_size(parse_employees(raw), [size_scoring |-> sc])]
    /\ pc' = "returned"
    /\ UNCHANGED pass_vars

CallScanKeywords ==
    /\ pc = "fn"
    /\ \E text \in Texts, industry \in Industries, cfg \in KwConfigs :
           call' = [fn |-> "scan_keywords", text |-> text, industry |-> industry,
                    cfg |-> cfg, ret |-> scan_keywords(text, industry, cfg)]
    /\ pc' = "returned"
    /\ UNCHANGED pass_vars

CallExtractSignals ==
    /\ pc = "fn"
    /\ \E sr \in SearchOutcomes, llm \in LlmOutcomes :
           call' = [fn |-> "extract_signals", search_results |-> sr, llm |-> llm,
                    ret |-> extract_signals(sr, llm)]
    /\ pc' = "returned"
    /\ UNCHANGED pass_vars

CallScoreEnrichment ==
    /\ pc = "fn"
    /\ \E signals \in SignalRecords, cfg \in EnrichmentConfigs :
           call' = [fn |-> "score_enrichment", signals |-> signals, cfg |-> cfg,
                    ret |-> score_enrichment(signals, cfg)]
    /\ pc' = "returned"
    /\ UNCHANGED pass_vars

CallEvaluateRule ==
    /\ pc = "fn"
    /\ \E condition \in Conditions, signals \in SignalRecords \cup SparseSignalRecords :
           call' = [fn |-> "_evaluate_rule", condition |-> condition,
                    signals |-> signals, ret |-> _evaluate_rule(condition, signals)]
    /\ pc' = "returned"
    /\ UNCHANGED pass_vars

InitFn ==
    /\ pc = "fn"
    /\ config = EmptyDict
    /\ call = NoCall
    /\ companies = <<>>
    /\ results = <<>>
    /\ pass1_results = <<>>
    /\ to_enrich = <<>>
    /\ skipped = <<>>
    /\ enriched = <<>>
    /\ idx = 0
    /\ cur = EmptyDict
    /\ trace = <<>>

NextFn ==
    \/ CallAssignTier
    \/ CallScoreSize
    \/ CallScanKeywords
    \/ CallExtractSignals
    \/ CallScoreEnrichment
    \/ CallEvaluateRule

SpecFn == InitFn /\ [][NextFn]_vars

----------------------------------------------------------------------------
(* Properties of the directly called functions (under SpecFn) *)

RECURSIVE SumOver(_, _)
SumOver(S, f) ==
    IF S = {} THEN 0
    ELSE LET i == CHOOSE x \in S : TRUE IN f[i] + SumOver(S \ {i}, f)

RECURSIVE SumPoints(_)
SumPoints(rules) ==
    IF rules = <<>> THEN 0 ELSE rules[1].points + SumPoints(Tail(rules))

Count(x, lst) == Cardinality({k \in 1..Len(lst) : lst[k] = x})

\* C2: assign_tier(s) returns the name of the first tier, in configured order,
\* whose min_score <= s, and "Disqualified" when no tier has min_score <= s.
C2_AssignTierFirstMatch ==
    call.fn = "assign_tier" =>
        LET s == call.score
            tl == call.tiers
            reached == {i \in 1..Len(tl) : tl[i].min_score <= s}
        IN  IF reached = {} THEN call.ret = "Disqualified"
            ELSE \E i \in reached :
                     /\ \A j \in reached : i <= j
                     /\ call.ret = tl[i].name

\* the first tier is missed by one (s = min_score - 1) and the second is hit
\* exactly (s = min_score)
C2_Witness ==
    /\ call.fn = "assign_tier"
    /\ Len(call.tiers) >= 2
    /\ call.score = call.tiers[1].min_score - 1
    /\ call.score = call.tiers[2].min_score
    /\ call.ret = call.tiers[2].name

\* C3: score_size disqualifies (None) when the normalized employee count is
\* absent or below min_employees; otherwise it returns the points of the first
\* bracket in configured order whose max >= employees, and disqualifies when
\* employees exceeds every bracket's max.
C3_ScoreSize ==
    call.fn = "score_size" =>
        LET e == call.employees
            sc == call.size_scoring
            min_emp == IF "min_employees" \in DOMAIN sc THEN sc.min_employees ELSE 0
            b == sc.brackets
            fits == {i \in 1..Len(b) : b[i].max >= e[1]}
        IN  IF e = None THEN call.ret = None
            ELSE IF e[1] < min_emp THEN call.ret = None
            ELSE IF fits = {} THEN call.ret = None
            ELSE \E i \in fits :
                     /\ \A j \in fits : i <= j
                     /\ call.ret = Some(b[i].points)

\* a count at or above min_employees that exceeds every configured maximum
C3_Witness ==
    /\ call.fn = "score_size"
    /\ call.raw.kind = "str"
    /\ call.employees = Some(1001)
    /\ Len(call.size_scoring.brackets) >= 1
    /\ \A i \in 1..Len(call.size_scoring.brackets) :
           call.size_scoring.brackets[i].max < 1001
    /\ call.ret = None

\* C4: scan_keywords counts each category with at least one matching term
\* exactly once, whatever the number of its terms that match; the total is the
\* sum of the matched categories' and conditional signals' points minus the
\* matched flags' penalties, cut to the cap, and never exceeds the cap.
C4_ScanKeywords ==
    call.fn = "scan_keywords" =>
        LET cfg == call.cfg
            kw == cfg.keyword_signals
            cats == kw.categories
            cap == IF "cap" \in DOMAIN kw THEN kw.cap ELSE 25
            conds == IF "conditional_signals" \in DOMAIN cfg
                     THEN cfg.conditional_signals ELSE <<>>
            flgs == IF "flags" \in DOMAIN cfg THEN cfg.flags ELSE <<>>
            hitCats == {i \in 1..Len(cats) :
                           \E k \in 1..Len(cats[i].terms) :
                               Contains(cats[i].terms[k], call.text)}
            firedConds == {i \in 1..Len(conds) : InList(conds[i].name, call.ret.matched)}
            firedFlags == {i \in 1..Len(flgs) : InList(flgs[i].name, call.ret.flags)}
            uncapped == SumOver(hitCats, [i \in 1..Len(cats) |-> cats[i].points])
                        + SumOver(firedConds, [i \in 1..Len(conds) |-> conds[i].points])
                        - SumOver(firedFlags, [i \in 1..Len(flgs) |-> flgs[i].penalty])
        IN  /\ \A i \in 1..Len(cats) :
                   Count(cats[i].name, call.ret.matched) = IF i \in hitCats THEN 1 ELSE 0
            /\ call.ret.total = Min(uncapped, cap)
            /\ call.ret.total <= cap

\* two terms of the first category and one of the second match, and the two
\* categories' points together exceed the cap
C4_Witness ==
    /\ call.fn = "scan_keywords"
    /\ Len(Hits(call.cfg.keyword_signals.categories[1].terms, call.text)) >= 2
    /\ Len(Hits(call.cfg.keyword_signals.categories[2].terms, call.text)) >= 1
    /\ call.ret.matched = <<"c1", "c2">>
    /\ "cap" \in DOMAIN call.cfg.keyword_signals
    /\ call.cfg.keyword_signals.categories[1].points
         + call.cfg.keyword_signals.categories[2].points > call.cfg.keyword_signals.cap
    /\ call.ret.total = call.cfg.keyword_signals.cap

\* the fixed condition vocabulary as section 4.5 gives it: a condition outside
\* it holds of no signal record
ConditionHolds(condition, signals) ==
    CASE condition = CondNumLoc3 ->
             signals.num_locations # None /\ signals.num_locations[1] >= 3
      [] condition = CondPositive -> signals.employee_sentiment = <<"positive">>
      [] condition = CondHr -> signals.hr_initiatives
      [] condition = CondDecentralized -> signals.decentralized
      [] condition = CondToolsEmpty -> Len(signals.competitor_tools) = 0
      [] condition = CondToolsNotEmpty -> Len(signals.competitor_tools) > 0
      [] OTHER -> FALSE

\* C5: for every signal record and every list of bonus rules, score_enrichment
\* returns the sum of the points of the rules whose condition holds, clamped to
\* [-bonus_cap, +bonus_cap], and the signal names of exactly those rules in
\* rule order.
C5_BonusClampedSum ==
    call.fn = "score_enrichment" =>
        LET enr == call.cfg.enrichment
            bonus_cap == IF "bonus_cap" \in DOMAIN enr THEN enr.bonus_cap ELSE 20
            holding == SelectSeq(enr.bonus_rules,
                                 LAMBDA r : ConditionHolds(r.condition, call.signals))
            sum == SumPoints(holding)
        IN  /\ ~call.ret.raised
            /\ call.ret.total = (IF sum > bonus_cap THEN bonus_cap
                                 ELSE IF sum < -bonus_cap THEN -bonus_cap ELSE sum)
            /\ call.ret.matched = [i \in 1..Len(holding) |-> holding[i].signal]

\* C5, where score_enrichment returns: the total is the clamped sum of the
\* points of the rules whose condition holds, and the names are theirs in order.
C5_ClampedWhenReturned ==
    (call.fn = "score_enrichment" /\ ~call.ret.raised) =>
        LET enr == call.cfg.enrichment
            bonus_cap == IF "bonus_cap" \in DOMAIN enr THEN enr.bonus_cap ELSE 20
            holding == SelectSeq(enr.bonus_rules,
                                 LAMBDA r : ConditionHolds(r.condition, call.signals))
            sum == SumPoints(holding)
        IN  /\ call.ret.total = (IF sum > bonus_cap THEN bonus_cap
                                 ELSE IF sum < -bonus_cap THEN -bonus_cap ELSE sum)
            /\ call.ret.matched = [i \in 1..Len(holding) |-> holding[i].signal]

\* C5, where it does not return: some rule is a num_locations clause whose
\* threshold is not an integer.
C5_RaisesOnlyOnBadThreshold ==
    (call.fn = "score_enrichment" /\ call.ret.raised) =>
        \E i \in 1..Len(call.cfg.enrichment.bonus_rules) :
            call.cfg.enrichment.bonus_rules[i].condition = CondBadThreshold

\* C7: extract_signals never raises; the record it returns defines all six
\* fields, and is the all-default record when the search results are empty or
\* the language-model call fails or its text is not a JSON object.
C7_ExtractNeverRaises ==
    call.fn = "extract_signals" =>
        /\ ~call.ret.raised
        /\ SignalKeys \subseteq DOMAIN call.ret.signals
        /\ (call.search_results = <<>> \/ call.llm.kind # "text")
               => call.ret.signals = _empty_signals

----------------------------------------------------------------------------
(* scorer.py: score_companies *)

\* A spreadsheet cell is [kind |-> "str", val |-> chars], a number (see
\* parse_employees) or [kind |-> "other"] for an empty cell (None).
\* `cell or ""`
OrEmpty(cell) == IF cell.kind = "str" THEN cell.val ELSE <<>>

\* f"{x}" of a cell of the industry column, one token per character
Fmt(cell) == IF cell.kind = "str" THEN cell.val ELSE <<"None">>

\* The f-strings of lines 91 and 93 as token sequences; `employees or 'unknown'`
\* prints 'unknown' for None and for 0.
SizeReason(employees) ==
    <<"Too", "small", "(",
      IF employees = None \/ employees[1] = 0 THEN "unknown" ELSE ToString(employees[1]),
      "employees", ")">>
IndustryReason(cell) == <<"Industry", "excluded", "(">> \o Fmt(cell) \o <<")">>

\* DisqualifyReasons with the second test made an elif
DisqualifyReasonsFirstOnly(c, employees, size_pts, industry_pts) ==
    IF size_pts = None THEN <<SizeReason(employees)>>
    ELSE IF industry_pts = None THEN <<IndustryReason(c.industry)>>
    ELSE <<>>

\* lines 89-93: the list disqualify_reasons
DisqualifyReasons(c, employees, size_pts, industry_pts) ==
    (IF size_pts = None THEN <<SizeReason(employees)>> ELSE <<>>)
    \o (IF industry_pts = None THEN <<IndustryReason(c.industry)>> ELSE <<>>)

\* "; ".join(parts)
RECURSIVE Join(_)
Join(parts) ==
    IF parts = <<>> THEN <<>>
    ELSE IF Len(parts) = 1 THEN parts[1]
    ELSE parts[1] \o <<";">> \o Join(Tail(parts))

\* one iteration of the loop of lines 83-130: the record appended for company c
ScoreCompany(c, cfg) ==
    LET employees == parse_employees(c.employees)
        size_pts == score_size(employees, cfg)
        ind == score_industry(OrEmpty(c.industry), cfg)
        industry_tier == ind[1]
        industry_pts == ind[2]
        disqualify_reasons == DisqualifyReasons(c, employees, size_pts, industry_pts)
        text == Lower(c.name \o <<" ">> \o OrEmpty(c.description) \o <<" ">>
                      \o OrEmpty(c.keywords))
        kw == scan_keywords(text, OrEmpty(c.industry), cfg)
        total == size_pts[1] + industry_pts[1] + kw.total
    IN  IF disqualify_reasons # <<>>
        THEN [name |-> c.name, industry |-> c.industry, employees |-> c.employees,
              description |-> c.description, keywords |-> c.keywords,
              employees_num |-> employees,
              size_score |-> 0,
              industry_tier |-> industry_tier,
              industry_score |-> 0,
              keyword_score |-> 0,
              keyword_signals |-> <<>>,
              flags |-> <<>>,
              total_score |-> 0,
              tier |-> "Disqualified",
              disqualify_reason |-> Join(disqualify_reasons)]
        ELSE [name |-> c.name, industry |-> c.industry, employees |-> c.employees,
              description |-> c.description, keywords |-> c.keywords,
              employees_num |-> employees,
              size_score |-> size_pts[1],
              industry_tier |-> industry_tier,
              industry_score |-> industry_pts[1],
              keyword_score |-> kw.total,
              keyword_signals |-> kw.matched,
              flags |-> kw.flags,
              total_score |-> total,
              tier |-> assign_tier(total, cfg),
              disqualify_reason |-> <<>>]

\* lines 79-133: the loop, then results.sort(key=total_score, reverse=True)
score_companies(cs, cfg) ==
    SortDesc([i \in 1..Len(cs) |-> ScoreCompany(cs[i], cfg)], "total_score")

----------------------------------------------------------------------------
(* Pass 1 inputs *)

MaxCompanies == 3    \* companies in a drawn input list

Str(chars) == [kind |-> "str", val |-> chars]
Empty == [kind |-> "other"]

Software == <<"s", "o", "f", "t">>
Health == <<"h", "e", "a", "l", "t", "h">>
Gambling == <<"b", "e", "t">>
Retail == <<"s", "h", "o", "p">>

Pass1ConfigA ==
    [size_scoring |->
         [min_employees |-> 10,
          brackets |-> <<[max |-> 50, points |-> 5], [max |-> 1000, points |-> 15]>>],
     industry_tiers |->
         [A |-> [industries |-> <<Software>>, points |-> Some(20)],
          B |-> [industries |-> <<Health>>, points |-> Some(15)],
          OUT |-> [industries |-> <<Gambling>>]],
     keyword_signals |->
         [cap |-> 25,
          categories |->
              <<[name |-> "hr", terms |-> <<<<"h", "r">>, <<"p", "p", "l">>>>,
                 points |-> 10],
                [name |-> "sites", terms |-> <<<<"s", "i", "t", "e">>>>, points |-> 20]>>],
     conditional_signals |->
         <<[name |-> "care",
            condition |-> [industry_contains |-> <<"e", "a", "l">>,
                           exclude_if_category_matched |-> "hr"],
            terms |-> <<<<"n", "1">>>>, points |-> 5]>>,
     flags |->
         <<[name |-> "agency", condition |-> [industry_contains |-> <<"o", "f">>],
            terms |-> <<<<"a", "g">>>>, penalty |-> 40]>>,
     tiers |->
         <<[name |-> "A - Hot", min_score |-> 40],
           [name |-> "B - Warm", min_score |-> 20],
           [name |-> "C - Cool", min_score |-> 0]>>]

\* no min_employees, no flags, a null default_points and a C tier without points
Pass1ConfigB ==
    [size_scoring |->
         [brackets |-> <<[max |-> 1000, points |-> 15]>>],
     industry_tiers |->
         [A |-> [industries |-> <<Software>>, points |-> Some(20)],
          C |-> [industries |-> <<Health>>],
          default_tier |-> "B",
          default_points |-> None],
     keyword_signals |->
         [categories |->
              <<[name |-> "hr", terms |-> <<<<"h", "r">>>>, points |-> 30]>>],
     tiers |->
         <<[name |-> "A - Hot", min_score |-> 40],
           [name |-> "C - Cool", min_score |-> 10]>>]

Pass1Configs == {Pass1ConfigA, Pass1ConfigB}

\* the fields of a company other than its name
Profiles ==
    {[employees |-> [kind |-> "int", val |-> 500], industry |-> Str(Software),
      description |-> Str(<<"H", "R">>), keywords |-> Empty],
     [employees |-> Str(<<"u", "n", "k", "n", "o", "w", "n">>), industry |-> Str(Software),
      description |-> Str(<<"h", "r">>), keywords |-> Empty],
     [employees |-> [kind |-> "int", val |-> 500], industry |-> Str(Gambling),
      description |-> Empty, keywords |-> Str(<<"h", "r">>)],
     [employees |-> [kind |-> "float", tenths |-> 99], industry |-> Str(Gambling),
      description |-> Empty, keywords |-> Empty],
     [employees |-> Str(<<"~", "5", "0", "0", " ", "F", "T", "E">>), industry |-> Empty,
      description |-> Str(<<"s", "i", "t", "e">>), keywords |-> Str(<<"h", "r">>)],
     [employees |-> [kind |-> "int", val |-> 50], industry |-> Str(Software),
      description |-> Str(<<"a", "g">>), keywords |-> Empty],
     [employees |-> [kind |-> "int", val |-> 1001], industry |-> Str(Retail),
      description |-> Empty, keywords |-> Empty],
     [employees |-> [kind |-> "int", val |-> 50], industry |-> Str(Health),
      description |-> Empty, keywords |-> Empty],
     [employees |-> Empty, industry |-> Str(<<>>),
      description |-> Empty, keywords |-> Empty]}

CompanyName(i) == <<"n", ToString(i)>>

\* input lists: the i-th company is named n<i>
CompanyLists ==
    UNION {{[i \in 1..k |->
                [name |-> CompanyName(i), industry |-> f[i].industry,
                 employees |-> f[i].employees, description |-> f[i].description,
                 keywords |-> f[i].keywords]] : f \in [1..k -> Profiles]} :
              k \in 0..MaxCompanies}

----------------------------------------------------------------------------
(* Pass 1: python -m lead_engine --mode pass1 *)

InitPass1 ==
    /\ pc = "pass1"
    /\ config \in Pass1Configs
    /\ call = NoCall
    /\ companies = <<>>
    /\ results = <<>>
    /\ pass1_results = <<>>
    /\ to_enrich = <<>>
    /\ skipped = <<>>
    /\ enriched = <<>>
    /\ idx = 0
    /\ cur = EmptyDict
    /\ trace = <<>>

\* read_companies supplies the list, score_companies scores and sorts it
ScoreCompanies ==
    /\ pc = "pass1"
    /\ \E cs \in CompanyLists :
           /\ companies' = cs
           /\ results' = score_companies(cs, config)
    /\ pc' = "pass1_done"
    /\ UNCHANGED <<config, call, pass1_results, to_enrich, skipped, enriched,
                   idx, cur, trace>>

NextPass1 == ScoreCompanies

SpecPass1 == InitPass1 /\ [][NextPass1]_vars

----------------------------------------------------------------------------
(* Properties of Pass 1 (under SpecPass1) *)

\* the record score_companies returned for the company of that name
RecordOf(name) == results[CHOOSE j \in 1..Len(results) : results[j].name = name]

SizeDisqualifies(c) == score_size(parse_employees(c.employees), config) = None
IndustryDisqualifies(c) == score_industry(OrEmpty(c.industry), config)[2] = None

\* C1: every record score_companies returns has, when its tier is
\* "Disqualified", zero size, industry, keyword and total scores and a
\* non-empty disqualify_reason, and otherwise an empty disqualify_reason and
\* total_score = size_score + industry_score + keyword_score.
C1_RecordInvariant ==
    \A j \in 1..Len(results) :
        LET r == results[j]
        IN  IF r.tier = "Disqualified"
            THEN /\ r.size_score = 0
                 /\ r.industry_score = 0
                 /\ r.keyword_score = 0
                 /\ r.total_score = 0
                 /\ r.disqualify_reason # <<>>
            ELSE /\ r.disqualify_reason = <<>>
                 /\ r.total_score = r.size_score + r.industry_score + r.keyword_score

\* C8 as claimed: a company whose employee count is unparseable, and a company
\* whose industry is missing, each gets tier "Disqualified", and there is one
\* record per input company.
C8_MissingIndustryDisqualifies ==
    pc = "pass1_done" =>
        /\ Len(results) = Len(companies)
        /\ \A i \in 1..Len(companies) :
               LET c == companies[i]
               IN  (parse_employees(c.employees) = None \/ OrEmpty(c.industry) = <<>>)
                       => RecordOf(c.name).tier = "Disqualified"

\* C8 (amended): score_companies returns one record per input company; a
\* company whose employee count is unparseable gets tier "Disqualified"; a
\* company whose industry is missing (None or empty) is looked up as the empty
\* label: listed in no tier, it gets the configured default tier and points ("C"
\* and 10 when not configured) and is disqualified for its industry only when
\* those points are null.
C8_DataErrorsRecovered ==
    pc = "pass1_done" =>
        /\ Len(results) = Len(companies)
        /\ \A i \in 1..Len(companies) :
               \E j \in 1..Len(results) : results[j].name = companies[i].name
        /\ \A i \in 1..Len(companies) :
               LET c == companies[i]
                   r == RecordOf(c.name)
                   tiers == config.industry_tiers
                   default_tier == IF "default_tier" \in DOMAIN tiers
                                   THEN tiers.default_tier ELSE "C"
                   default_points == IF "default_points" \in DOMAIN tiers
                                     THEN tiers.default_points ELSE Some(10)
               IN  /\ parse_employees(c.employees) = None => r.tier = "Disqualified"
                   /\ OrEmpty(c.industry) = <<>> =>
                          /\ r.industry_tier = default_tier
                          /\ default_points = None =>
                                 /\ r.tier = "Disqualified"
                                 /\ InList("excluded", r.disqualify_reason)
                          /\ (default_points # None /\ ~SizeDisqualifies(c)) =>
                                 /\ r.industry_score = default_points[1]
                                 /\ r.disqualify_reason = <<>>

\* one company without an industry scored with the unconfigured default (C, 10)
\* next to one with an unparseable employee count, disqualified
C8_Witness ==
    /\ pc = "pass1_done"
    /\ \E i \in 1..Len(companies) :
           /\ companies[i].industry = Empty
           /\ RecordOf(companies[i].name).industry_tier = "C"
           /\ RecordOf(companies[i].name).industry_score = 10
           /\ RecordOf(companies[i].name).tier = "A - Hot"
    /\ \E i \in 1..Len(companies) :
           /\ companies[i].employees.kind = "str"
           /\ parse_employees(companies[i].employees) = None
           /\ RecordOf(companies[i].name).tier = "Disqualified"

\* C9: a company that score_size or score_industry disqualifies gets a record
\* with tier "Disqualified", zero scores, no keyword signals and no flags, and a
\* reason that names the size cause when size disqualified and the industry
\* cause when industry disqualified (both, joined, when both apply); an
\* employees cell "unknown" gives a reason with the word "small".
C9_DisqualifiedRecord ==
    pc = "pass1_done" =>
        \A i \in 1..Len(companies) :
            LET c == companies[i]
                r == RecordOf(c.name)
            IN  /\ (SizeDisqualifies(c) \/ IndustryDisqualifies(c)) =>
                       /\ r.tier = "Disqualified"
                       /\ r.size_score = 0
                       /\ r.industry_score = 0
                       /\ r.keyword_score = 0
                       /\ r.total_score = 0
                       /\ r.keyword_signals = <<>>
                       /\ r.flags = <<>>
                       /\ SizeDisqualifies(c) => InList("small", r.disqualify_reason)
                       /\ IndustryDisqualifies(c) => InList("excluded", r.disqualify_reason)
                       /\ (SizeDisqualifies(c) /\ IndustryDisqualifies(c)) =>
                              InList(";", r.disqualify_reason)
                /\ c.employees = Str(<<"u", "n", "k", "n", "o", "w", "n">>) =>
                       InList("small", r.disqualify_reason)

\* a company disqualified for both causes, and one disqualified for size whose
\* text holds a keyword term that was not scanned
C9_Witness ==
    /\ pc = "pass1_done"
    /\ \E i \in 1..Len(companies) :
           /\ SizeDisqualifies(companies[i])
           /\ IndustryDisqualifies(companies[i])
           /\ InList("small", RecordOf(companies[i].name).disqualify_reason)
           /\ InList("excluded", RecordOf(companies[i].name).disqualify_reason)
    /\ \E i \in 1..Len(companies) :
           /\ companies[i].employees = Str(<<"u", "n", "k", "n", "o", "w", "n">>)
           /\ companies[i].description = Str(<<"h", "r">>)
           /\ RecordOf(companies[i].name).keyword_signals = <<>>
           /\ RecordOf(companies[i].name).tier = "Disqualified"

\* position in the input list of the company a returned record belongs to
InputIndex(r) == CHOOSE i \in 1..Len(companies) : companies[i].name = r.name

\* C11: the list score_companies returns holds one record for every input
\* company, disqualified or not, in non-increasing total_score order; records
\* with equal total_score keep their input order; so a disqualified record
\* (total_score 0) stands ahead of every record with a negative total_score.
C11_SortedStable ==
    pc = "pass1_done" =>
        /\ Len(results) = Len(companies)
        /\ \A i \in 1..Len(companies) :
               Cardinality({j \in 1..Len(results) :
                                /\ results[j].name = companies[i].name
                                /\ results[j].industry = companies[i].industry
                                /\ results[j].employees = companies[i].employees
                                /\ results[j].description = companies[i].description
                                /\ results[j].keywords = companies[i].keywords}) = 1
        /\ \A j, k \in 1..Len(results) :
               j < k =>
                   /\ results[j].total_score >= results[k].total_score
                   /\ results[j].total_score = results[k].total_score
                          => InputIndex(results[j]) < InputIndex(results[k])
        /\ \A j, k \in 1..Len(results) :
               /\ results[j].tier = "Disqualified"
               /\ results[j].total_score = 0
               /\ results[k].total_score < 0
               => j < k

\* a negatively scored company that came first in the input ends behind two
\* different disqualified companies, which tie at 0 and keep their input order
C11_Witness ==
    /\ pc = "pass1_done"
    /\ Len(results) = 3
    /\ results[3].total_score < 0
    /\ InputIndex(results[3]) = 1
    /\ results[1].tier = "Disqualified"
    /\ results[2].tier = "Disqualified"
    /\ results[1].industry # results[2].industry
    /\ results[1].total_score = results[2].total_score
    /\ InputIndex(results[1]) < InputIndex(results[2])

----------------------------------------------------------------------------
(* enricher.py: enrich_companies *)

\* lst[:n] and lst[n:] as Python slices them (a negative n counts from the end)
SliceEnd(lst, n) == IF n >= 0 THEN Min(n, Len(lst)) ELSE Max(Len(lst) + n, 0)
Take(lst, n) == SubSeq(lst, 1, SliceEnd(lst, n))
Drop(lst, n) == SubSeq(lst, SliceEnd(lst, n) + 1, Len(lst))

\* Eligible without the filter on the tier
EligibleUnfiltered(p1) == SortDesc(p1, "total_score")

\* lines 147-148: the non-disqualified records, by total_score descending
Eligible(p1) ==
    SortDesc(SelectSeq(p1, LAMBDA r : r.tier # "Disqualified"), "total_score")

\* lines 179-188: the record appended for an enriched company
EnrichedRecord(company, search_results, signals, bonus, cfg) ==
    [name |-> company.name, industry |-> company.industry,
     total_score |-> company.total_score, tier |-> company.tier,
     enrichment_bonus |-> bonus.total,
     enrichment_signals |-> bonus.matched,
     enrichment_summary |-> Get(signals, "summary", ""),
     enrichment_raw |-> signals,
     search_snippets |-> [k \in 1..Min(3, Len(search_results)) |-> search_results[k].snippet],
     pass2_score |-> company.total_score + bonus.total,
     pass2_tier |-> assign_tier(company.total_score + bonus.total, cfg)]

\* PassThroughRecord with the tier recomputed from the score
PassThroughRetiered(company, cfg) ==
    [name |-> company.name, industry |-> company.industry,
     total_score |-> company.total_score, tier |-> company.tier,
     enrichment_bonus |-> 0,
     enrichment_signals |-> <<>>,
     enrichment_summary |-> "Not enriched (outside top N)",
     enrichment_raw |-> EmptyDict,
     search_snippets |-> <<>>,
     pass2_score |-> company.total_score,
     pass2_tier |-> assign_tier(company.total_score, cfg)]

\* lines 195-204: the record appended for a skipped company
PassThroughRecord(company, cfg) ==
    [name |-> company.name, industry |-> company.industry,
     total_score |-> company.total_score, tier |-> company.tier,
     enrichment_bonus |-> 0,
     enrichment_signals |-> <<>>,
     enrichment_summary |-> "Not enriched (outside top N)",
     enrichment_raw |-> EmptyDict,
     search_snippets |-> <<>>,
     pass2_score |-> company.total_score,
     pass2_tier |-> company.tier]

----------------------------------------------------------------------------
(* Pass 2 inputs *)

MaxTopN == 2         \* the configured top_n ranges up to this

Pass2Tiers ==
    <<[name |-> "A - Hot", min_score |-> 40],
      [name |-> "B - Warm", min_score |-> 20],
      [name |-> "C - Cool", min_score |-> 0]>>

GoodRules ==
    <<[condition |-> CondNumLoc3, points |-> 5, signal |-> "multi_site"],
      [condition |-> CondPositive, points |-> 5, signal |-> "happy"],
      [condition |-> CondToolsEmpty, points |-> 3, signal |-> "greenfield"],
      [condition |-> CondHr, points |-> 18, signal |-> "hr_programs"]>>

Pass2Configs ==
    {[tiers |-> Pass2Tiers,
      enrichment |-> [top_n |-> n, search_delay_seconds |-> 2, bonus_cap |-> 10,
                      bonus_rules |-> GoodRules]] : n \in 0..MaxTopN}
    \cup {[tiers |-> Pass2Tiers,
           enrichment |-> [bonus_rules |->
               <<[condition |-> CondBadThreshold, points |-> 6, signal |-> "many_sites"]>>]]}

\* rows of the Pass 1 sheet as read_pass1_results returns them; the sheet may
\* have been written under another configuration, or edited
Pass1Rows ==
    {[total_score |-> 45, tier |-> "A - Hot"],
     [total_score |-> 20, tier |-> "C - Cool"],
     [total_score |-> 0, tier |-> "C - Cool"],
     [total_score |-> 0, tier |-> "Disqualified"],
     [total_score |-> 25, tier |-> "Disqualified"]}

Pass1ResultLists ==
    UNION {{[i \in 1..k |->
                [name |-> CompanyName(i), industry |-> Software,
                 total_score |-> f[i].total_score, tier |-> f[i].tier]] :
               f \in [1..k -> Pass1Rows]} : k \in 0..MaxCompanies}

OneResult == <<[title |-> "t1", url |-> "u1", snippet |-> "s1"]>>
Pass2SearchOutcomes == {<<>>, OneResult}

Pass2LlmOutcomes ==
    {[kind |-> "call_raises"],
     [kind |-> "text",
      text |-> <<Fence, Prose, Nl,
                 Json([type |-> "object", dict |-> SampleValues]), Nl, Fence>>],
     [kind |-> "text",
      text |-> <<Json([type |-> "object",
                       dict |-> [employee_sentiment |-> <<"positive">>]])>>],
     [kind |-> "text", text |-> <<Json([type |-> "array"])>>]}

----------------------------------------------------------------------------
(* Pass 2: python -m lead_engine --mode pass2 *)

InitPass2 ==
    /\ pc = "pass2"
    /\ config \in Pass2Configs
    /\ call = NoCall
    /\ companies = <<>>
    /\ results = <<>>
    /\ pass1_results = <<>>
    /\ to_enrich = <<>>
    /\ skipped = <<>>
    /\ enriched = <<>>
    /\ idx = 0
    /\ cur = EmptyDict
    /\ trace = <<>>

\* lines 142-154: read_pass1_results supplies the list; filter, sort, slice
EnrichStart ==
    /\ pc = "pass2"
    /\ \E p1 \in Pass1ResultLists :
           LET top_n == Get(config.enrichment, "top_n", 50)
               eligible == Eligible(p1)
           IN  /\ pass1_results' = p1
               /\ to_enrich' = Take(eligible, top_n)
               /\ skipped' = Drop(eligible, top_n)
               /\ pc' = IF Take(eligible, top_n) = <<>> THEN "merge" ELSE "search"
    /\ enriched' = <<>>
    /\ idx' = 0
    /\ UNCHANGED <<config, call, companies, results, cur, trace>>

\* line 161: search_company, which returns [] when the search raises
Search ==
    /\ pc = "search"
    /\ \E sr \in Pass2SearchOutcomes : cur' = [results |-> sr]
    /\ trace' = Append(trace, [op |-> "search", i |-> idx])
    /\ pc' = "extract"
    /\ UNCHANGED <<config, call, companies, results, pass1_results, to_enrich,
                   skipped, enriched, idx>>

\* lines 165-169: extract_signals; an exception it lets through ends the run
Extract ==
    /\ pc = "extract"
    /\ \E llm \in Pass2LlmOutcomes :
           LET ret == extract_signals(cur.results, llm)
           IN  IF ret.raised
               THEN /\ pc' = "raised"
                    /\ cur' = cur
               ELSE /\ pc' = "score"
                    /\ cur' = [results |-> cur.results, signals |-> ret.signals]
    /\ trace' = Append(trace, [op |-> "extract", i |-> idx])
    /\ UNCHANGED <<config, call, companies, results, pass1_results, to_enrich,
                   skipped, enriched, idx>>

\* a Score step that sleeps after every company, the last one included
ScoreSleepAfterEvery ==
    /\ pc = "score"
    /\ LET company == to_enrich[idx + 1]
           bonus == score_enrichment(cur.signals, config)
       IN  IF bonus.raised
           THEN /\ pc' = "raised"
                /\ enriched' = enriched
           ELSE /\ enriched' = Append(enriched,
                        EnrichedRecord(company, cur.results, cur.signals, bonus, config))
                /\ pc' = "sleep"
    /\ trace' = Append(trace, [op |-> "score", i |-> idx])
    /\ UNCHANGED <<config, call, companies, results, pass1_results, to_enrich,
                   skipped, idx, cur>>

\* lines 172-188: score_enrichment, assign_tier, enriched.append
Score ==
    /\ pc = "score"
    /\ LET company == to_enrich[idx + 1]
           bonus == score_enrichment(cur.signals, config)
       IN  IF bonus.raised
           THEN /\ pc' = "raised"
                /\ enriched' = enriched
           ELSE /\ enriched' = Append(enriched,
                        EnrichedRecord(company, cur.results, cur.signals, bonus, config))
                /\ pc' = IF idx < Len(to_enrich) - 1 THEN "sleep" ELSE "merge"
    /\ trace' = Append(trace, [op |-> "score", i |-> idx])
    /\ UNCHANGED <<config, call, companies, results, pass1_results, to_enrich,
                   skipped, idx, cur>>

\* lines 190-191: time.sleep(delay), then the next iteration
Sleep ==
    /\ pc = "sleep"
    /\ trace' = Append(trace, [op |-> "sleep", i |-> idx])
    /\ idx' = idx + 1
    /\ cur' = EmptyDict
    /\ pc' = "search"
    /\ UNCHANGED <<config, call, companies, results, pass1_results, to_enrich,
                   skipped, enriched>>

\* lines 193-207: append the skipped companies, sort by pass2_score, return
Merge ==
    /\ pc = "merge"
    /\ enriched' = SortDesc(
           enriched \o [k \in 1..Len(skipped) |-> PassThroughRecord(skipped[k], config)],
           "pass2_score")
    /\ pc' = "done"
    /\ UNCHANGED <<config, call, companies, results, pass1_results, to_enrich,
                   skipped, idx, cur, trace>>

NextPass2 ==
    \/ EnrichStart
    \/ Search
    \/ Extract
    \/ Score
    \/ Sleep
    \/ Merge

SpecPass2 == InitPass2 /\ [][NextPass2]_vars

----------------------------------------------------------------------------
(* Properties of Pass 2 (under SpecPass2) *)

\* the record enrich_companies returned for the company of that name
OutputOf(name) == enriched[CHOOSE j \in 1..Len(enriched) : enriched[j].name = name]

NonDisqualified(p1) == {i \in 1..Len(p1) : p1[i].tier # "Disqualified"}

\* C6: in the list enrich_companies returns, every pass-through company has
\* enrichment_bonus 0, pass2_score equal to its Pass-1 total_score and
\* pass2_tier equal to its Pass-1 tier, whatever search and extraction returned
\* for the enriched companies.
C6_PassThroughUnchanged ==
    pc = "done" =>
        \A k \in 1..Len(skipped) :
            \E i \in 1..Len(pass1_results) :
                /\ pass1_results[i].name = skipped[k].name
                /\ \E j \in 1..Len(enriched) : enriched[j].name = skipped[k].name
                /\ OutputOf(skipped[k].name).enrichment_bonus = 0
                /\ OutputOf(skipped[k].name).pass2_score = pass1_results[i].total_score
                /\ OutputOf(skipped[k].name).pass2_tier = pass1_results[i].tier

\* a returned list with a company enriched to a non-zero bonus and a
\* pass-through company whose Pass-1 tier is not the tier of its score
C6_Witness ==
    /\ pc = "done"
    /\ \E j \in 1..Len(enriched) : enriched[j].enrichment_bonus > 0
    /\ \E k \in 1..Len(skipped) :
           /\ skipped[k].tier # assign_tier(skipped[k].total_score, config)
           /\ OutputOf(skipped[k].name).pass2_tier = skipped[k].tier

\* C10: enrich_companies enriches no record whose tier is "Disqualified"; the
\* enrichment set has min(top_n, number of non-disqualified records) members,
\* every other non-disqualified record is pass-through, and no pass-through
\* record has a total_score greater than that of an enriched record.
C10_EnrichmentSet ==
    pc # "pass2" =>
        LET top_n == IF "top_n" \in DOMAIN config.enrichment
                     THEN config.enrichment.top_n ELSE 50
            n == Cardinality(NonDisqualified(pass1_results))
            chosen == {to_enrich[k].name : k \in 1..Len(to_enrich)}
            passed == {skipped[k].name : k \in 1..Len(skipped)}
        IN  /\ \A k \in 1..Len(to_enrich) : to_enrich[k].tier # "Disqualified"
            /\ Len(to_enrich) = Min(top_n, n)
            /\ Cardinality(chosen) = Len(to_enrich)
            /\ Cardinality(passed) = Len(skipped)
            /\ chosen \cap passed = {}
            /\ chosen \cup passed
                 = {pass1_results[i].name : i \in NonDisqualified(pass1_results)}
            /\ \A k \in 1..Len(to_enrich) : \E i \in NonDisqualified(pass1_results) :
                   /\ pass1_results[i].name = to_enrich[k].name
                   /\ pass1_results[i].total_score = to_enrich[k].total_score
            /\ \A k \in 1..Len(to_enrich), m \in 1..Len(skipped) :
                   skipped[m].total_score <= to_enrich[k].total_score
            /\ \A t \in 1..Len(trace) :
                   /\ trace[t].i < Len(to_enrich)
                   /\ to_enrich[trace[t].i + 1].tier # "Disqualified"
            /\ pc = "done" =>
                   \A j \in 1..Len(enriched) : enriched[j].tier # "Disqualified"

\* the input is not in score order and holds a disqualified record with a
\* score above an eligible one; more records are eligible than top_n >= 1
C10_Witness ==
    /\ pc = "done"
    /\ Len(to_enrich) >= 1
    /\ Len(skipped) >= 1
    /\ \E i \in 1..Len(pass1_results), j \in 1..Len(pass1_results) :
           /\ i < j
           /\ pass1_results[i].total_score < pass1_results[j].total_score
           /\ pass1_results[i].tier # "Disqualified"
           /\ pass1_results[j].tier # "Disqualified"
           /\ to_enrich[1].name = pass1_results[j].name
    /\ \E i \in 1..Len(pass1_results), m \in 1..Len(skipped) :
           /\ pass1_results[i].tier = "Disqualified"
           /\ pass1_results[i].total_score > skipped[m].total_score

\* the steps of Pass 2 over k companies taken strictly one after another:
\* search, extract, score of company 0, a sleep, search, extract, score of
\* company 1, ..., with no sleep before the first company or after the last
StepOps == <<"search", "extract", "score", "sleep">>
SequentialSteps(k) ==
    [p \in 1..(IF k = 0 THEN 0 ELSE 4 * k - 1) |->
        [op |-> StepOps[((p - 1) % 4) + 1], i |-> (p - 1) \div 4]]

Sleeps == Count("sleep", [p \in 1..Len(trace) |-> trace[p].op])
Searches == Count("search", [p \in 1..Len(trace) |-> trace[p].op])

\* C12: during Pass 2 the companies of the enrichment set are processed one
\* after another (search, extraction and scoring of a company are over before
\* the search of the next one starts), and the delay is taken exactly once
\* between consecutive companies, never before the first nor after the last:
\* k enriched companies cause max(0, k - 1) delays.
C12_SequentialWithDelays ==
    LET k == Len(to_enrich)
    IN  /\ Len(trace) <= Len(SequentialSteps(k))
        /\ trace = SubSeq(SequentialSteps(k), 1, Len(trace))
        /\ pc = "done" =>
               /\ trace = SequentialSteps(k)
               /\ Sleeps = Max(0, k - 1)
               /\ Searches = k
        /\ pc = "raised" => Sleeps = Max(0, Searches - 1)

\* a finished run that enriched two companies with one delay between them,
\* the second company's search coming right after it
C12_Witness ==
    /\ pc = "done"
    /\ Len(to_enrich) = 2
    /\ Len(trace) = 7
    /\ trace[3] = [op |-> "score", i |-> 0]
    /\ trace[4] = [op |-> "sleep", i |-> 0]
    /\ trace[5] = [op |-> "search", i |-> 1]
    /\ trace[7] = [op |-> "score", i |-> 1]
    /\ Sleeps = 1

\* C7, where extract_signals returns: all six fields are defined, and the
\* record is the all-default one when nothing was parsed.
C7_DefaultsWhenReturned ==
    (call.fn = "extract_signals" /\ ~call.ret.raised) =>
        /\ SignalKeys \subseteq DOMAIN call.ret.signals
        /\ (call.search_results = <<>> \/ call.llm.kind # "text")
               => call.ret.signals = _empty_signals

\* C7, where it does not return: the client could not be constructed, or the
\* reply parsed as JSON that is not an object.
C7_RaisesOnlyOutsideTry ==
    (call.fn = "extract_signals" /\ call.ret.raised) =>
        /\ call.search_results # <<>>
        /\ \/ call.llm.kind = "construct_raises"
           \/ /\ call.llm.kind = "text"
              /\ \E k \in 1..Len(call.llm.text) :
                     /\ call.llm.text[k].seg = "json"
                     /\ call.llm.text[k].value.type # "object"

\* the condition strings outside the vocabulary of section 4.5, the malformed
\* num_locations clauses among them
OutOfVocabulary == {CondUnknown, CondNoBlanks, CondBadThreshold, CondNoThreshold}

\* C13: for every condition string outside the fixed vocabulary, a
\* num_locations clause whose threshold is not an integer included,
\* _evaluate_rule returns false without raising; and a num_locations clause
\* treats an absent or null count as 0.
C13_EvaluateRuleFailClosed ==
    call.fn = "_evaluate_rule" =>
        /\ call.condition \in OutOfVocabulary =>
               call.ret = [raised |-> FALSE, hit |-> FALSE]
        /\ (/\ call.condition \in {CondNumLoc0, CondNumLoc3}
            /\ Get(call.signals, "num_locations", None) = None) =>
               call.ret = [raised |-> FALSE, hit |-> call.condition = CondNumLoc0]

\* C13, the part about the count: an absent or null num_locations is compared
\* as 0, so it meets the threshold 0 and not the threshold 3.
C13_NullCountIsZero ==
    (/\ call.fn = "_evaluate_rule"
     /\ call.condition \in {CondNumLoc0, CondNumLoc3}
     /\ Get(call.signals, "num_locations", None) = None) =>
        call.ret = [raised |-> FALSE, hit |-> call.condition = CondNumLoc0]

\* C13, the conditions that hold no "num_locations >= " clause: an
\* unrecognized one evaluates to false and nothing is raised.
C13_UnrecognizedIsFalse ==
    (/\ call.fn = "_evaluate_rule"
     /\ call.condition \in {CondUnknown, CondNoBlanks}) =>
        call.ret = [raised |-> FALSE, hit |-> FALSE]

\* C13, where _evaluate_rule raises: exactly on a "num_locations >= " clause
\* whose threshold int() rejects.
C13_RaisesOnMalformedThreshold ==
    call.fn = "_evaluate_rule" =>
        (call.ret.raised <=> call.condition \in {CondBadThreshold, CondNoThreshold})

====
